---- MODULE Spec2Model ----
(***************************************************************************)
(* A model of nion.ui.Window.Window (src/nion/ui/Window.py): the periodic  *)
(* task runner (FIFO task queue, keyed task set, one event loop iteration  *)
(* per tick), the close sequence, the persistence of geometry and state,   *)
(* and the dispatch of the standard menu actions to the focus widget.      *)
(*                                                                         *)
(* The window runs on one thread.  A task executed by periodic() is a      *)
(* callable of the application: it may call back into the window           *)
(* (queue_task, add_task, clear_task, close), so periodic() is modelled    *)
(* step by step, one executed task per step, and the other callbacks are   *)
(* delivered between ticks.  A Python exception raised by an operation     *)
(* (here: AttributeError, the use of a field that close() set to None)     *)
(* ends the operation where it is raised and is recorded in `error`.       *)
(* Tasks that raise exceptions of their own are outside the model.         *)
(***************************************************************************)
EXTENDS Integers, Sequences, FiniteSets, TLC

\* ---------------------------------------------------------------- bounds
MaxTasks == 3
MaxLoopTasks == 2
MaxSteps == 4
MaxCloses == 2

None == "None"
NoError == "none"
AttributeError == "AttributeError"

Keys == {"a", "b"}
LoopIds == 1..MaxLoopTasks

\* What an executed task does: nothing to the window, or one call back into it
\* (queue_task, add_task or clear_task under a key, close).
TaskKinds ==
    {[op |-> "none", key |-> "a"], [op |-> "queue_task", key |-> "a"],
     [op |-> "close", key |-> "a"]}
    \cup [op : {"add_task", "clear_task"}, key : Keys]
Task(i, kind) == [id |-> i, op |-> kind.op, key |-> kind.key]

Range(f) == {f[x] : x \in DOMAIN f}
Ids(seq) == [i \in DOMAIN seq |-> seq[i].id]

\* ----------------------------------------------------------------- state
VARIABLES
    document_window,    \* Window.__document_window: "DocumentWindow" or None
    destroyed,          \* number of ui.destroy_document_window calls
    periodic_queue,     \* Window.__periodic_queue: "TaskQueue" or None
    queue_items,        \* the contents of the TaskQueue object
    periodic_set,       \* Window.__periodic_set: "TaskSet" or None
    set_items,          \* the dict of the TaskSet object: key -> task
    event_loop,         \* Window.__event_loop: "EventLoop" or None
    loop_closed,        \* the event loop object has been closed
    loop_tasks,         \* the tasks of the event loop: id -> [status, remaining]
    error,              \* the exception raised by the last operation
    pc,                 \* where periodic() is: "idle", "queue", "set"
    qsize,              \* TaskQueue.perform_tasks: tasks left to take this tick
    task_dict,          \* TaskSet.perform_tasks: the dict being drained
    overridden,         \* a subclass overrides about_to_close without closing
    \* history
    next_id,            \* the next task identity
    executed,           \* the task ids executed, in order
    queued_log,         \* the task ids passed to queue_task, in order
    replaced,           \* <<key, id, by>> of set tasks overwritten while pending
    cleared,            \* <<key, id>> of set tasks cleared while pending
    latest,             \* key -> id of the last add_task not yet cleared/drained
    tick,               \* the current or last tick: what was pending, what ran
    atc_calls,          \* about_to_close callbacks delivered
    \* persistence (about_to_show, size_changed, position_changed)
    persistent_id,      \* Window.__persistent_id
    shown,              \* Window.__shown
    store,              \* the persistent strings of the ui: key -> value
    geometry,           \* the geometry of the document window (what save() returns)
    layout,             \* the state of the document window (what save() returns)
    show_pc,            \* where about_to_show() is: "idle", "restore"
    store_reads,        \* the keys read with get_persistent_string
    store_writes,       \* the keys written with set_persistent_string
    show_completed,     \* about_to_show has completed at least once
    \* menus
    focus,              \* document_window.focus_widget
    docks,              \* focus_widget of each of document_window.dock_widgets
    handlers,           \* the method names each widget has
    window_methods,     \* the method names the window has
    enabled,            \* menu action -> its enabled flag
    fresh,              \* the menus whose about-to-show ran under this focus
    last_dispatch       \* the last triggered action and what it reached

taskvars == <<document_window, destroyed, periodic_queue, queue_items,
              periodic_set, set_items, event_loop, loop_closed, loop_tasks,
              error, pc, qsize, task_dict, overridden, next_id, executed,
              queued_log, replaced, cleared, latest, tick, atc_calls>>
persistvars == <<persistent_id, shown, store, geometry, layout, show_pc,
                 store_reads, store_writes, show_completed>>
menuvars == <<focus, docks, handlers, window_methods, enabled, fresh,
              last_dispatch>>
vars == <<taskvars, persistvars, menuvars>>

\* The fields and histories that the window's operations read and write, as one
\* record, so that an operation called by a task composes with the tick.
Cur ==
    [document_window |-> document_window, destroyed |-> destroyed,
     periodic_queue |-> periodic_queue, queue_items |-> queue_items,
     periodic_set |-> periodic_set, set_items |-> set_items,
     event_loop |-> event_loop, loop_closed |-> loop_closed,
     loop_tasks |-> loop_tasks, error |-> error, next_id |-> next_id,
     executed |-> executed, queued_log |-> queued_log, replaced |-> replaced,
     cleared |-> cleared, latest |-> latest]

Apply(s) ==
    /\ document_window' = s.document_window
    /\ destroyed' = s.destroyed
    /\ periodic_queue' = s.periodic_queue
    /\ queue_items' = s.queue_items
    /\ periodic_set' = s.periodic_set
    /\ set_items' = s.set_items
    /\ event_loop' = s.event_loop
    /\ loop_closed' = s.loop_closed
    /\ loop_tasks' = s.loop_tasks
    /\ error' = s.error
    /\ next_id' = s.next_id
    /\ executed' = s.executed
    /\ queued_log' = s.queued_log
    /\ replaced' = s.replaced
    /\ cleared' = s.cleared
    /\ latest' = s.latest

Raise(s) == [s EXCEPT !.error = AttributeError]
Enter(s) == [s EXCEPT !.error = NoError]

\* ------------------------------------------- nion.utils.Process containers
\* TaskQueue.put: a FIFO queue.
TaskQueue_put(q, task) == Append(q, task)

\* TaskSet.add_task: the task stored under the key replaces the one there.
TaskSet_add_task(d, key, task) ==
    [k \in DOMAIN d \cup {key} |-> IF k = key THEN task ELSE d[k]]

\* TaskSet.clear_task: drops the key's task, if any.
TaskSet_clear_task(d, key) == [k \in DOMAIN d \ {key} |-> d[k]]

EmptyDict == [k \in {} |-> None]

\* ------------------------------------------------------------ event loop
\* The asyncio of the Python versions the code runs on (3.5 to 3.7):
\* Task.all_tasks exists and returns finished tasks too, and the
\* CancelledError of a gather is the concurrent.futures.CancelledError that
\* close() catches.  A task of the loop is pending with a number of steps
\* left, cancelling (cancel() was called), done or cancelled.
NoLoopTask == [status |-> "none", remaining |-> 0]

\* loop.stop(); loop.run_forever(): one iteration of the loop.  Every pending
\* task takes one step; a task whose cancellation was requested ends cancelled.
run_once(lt) ==
    [i \in DOMAIN lt |->
        CASE lt[i].status = "pending" ->
                IF lt[i].remaining <= 1
                THEN [status |-> "done", remaining |-> 0]
                ELSE [status |-> "pending", remaining |-> lt[i].remaining - 1]
          [] lt[i].status = "cancelling" -> [status |-> "cancelled", remaining |-> 0]
          [] OTHER -> lt[i]]

\* asyncio.Task.all_tasks(loop): the tasks of the loop, finished ones included.
all_tasks(lt) == {i \in DOMAIN lt : lt[i].status # "none"}

\* The future of asyncio.gather(*tasks) is done as soon as one task is
\* cancelled (CancelledError) or when all of them are done.
gather_done(lt) ==
    \/ \E i \in all_tasks(lt) : lt[i].status = "cancelled"
    \/ \A i \in all_tasks(lt) : lt[i].status = "done"

\* loop.run_until_complete(gather(...)): iterations until the gather future is
\* done, then one iteration that runs its done callback and one that stops the
\* loop.
RECURSIVE run_until_complete(_)
run_until_complete(lt) ==
    IF gather_done(lt) THEN run_once(run_once(lt))
    ELSE run_until_complete(run_once(lt))


\* ---------------------------------------------------- window operations
\* str(id(self)): the suffix add_task and clear_task append to the key.
WindowId == "140"
KeyOf(key) == key \o WindowId

\* (mutant) queue_task puts the task at the head of the queue.
queue_task_at_head(s, task) ==
    IF s.periodic_queue = None THEN Raise(s)
    ELSE [s EXCEPT !.queue_items = <<task>> \o @,
                   !.queued_log = Append(@, task.id)]

\* Window.queue_task (history: queued_log)
queue_task(s, task) ==
    IF s.periodic_queue = None THEN Raise(s)
    ELSE [s EXCEPT !.queue_items = TaskQueue_put(@, task),
                   !.queued_log = Append(@, task.id)]

\* (mutant) add_task keeps the task already stored under the key.
add_task_keep_first(s, key, task) ==
    IF s.periodic_set = None THEN Raise(s)
    ELSE [s EXCEPT
            !.set_items = IF KeyOf(key) \in DOMAIN @ THEN @
                          ELSE TaskSet_add_task(@, KeyOf(key), task),
            !.replaced = IF KeyOf(key) \in DOMAIN s.set_items
                         THEN @ \cup {<<KeyOf(key), s.set_items[KeyOf(key)].id, task.id>>}
                         ELSE @,
            !.latest = [k \in DOMAIN @ \cup {KeyOf(key)} |->
                            IF k = KeyOf(key) THEN task.id ELSE @[k]]]

\* Window.add_task (history: replaced, latest)
add_task(s, key, task) ==
    IF s.periodic_set = None THEN Raise(s)
    ELSE [s EXCEPT
            !.set_items = TaskSet_add_task(@, KeyOf(key), task),
            !.replaced = IF KeyOf(key) \in DOMAIN s.set_items
                         THEN @ \cup {<<KeyOf(key), s.set_items[KeyOf(key)].id, task.id>>}
                         ELSE @,
            !.latest = [k \in DOMAIN @ \cup {KeyOf(key)} |->
                            IF k = KeyOf(key) THEN task.id ELSE @[k]]]

\* (mutant) clear_task passes the key without the suffix add_task appends.
clear_task_bare_key(s, key) ==
    IF s.periodic_set = None THEN Raise(s)
    ELSE [s EXCEPT
            !.set_items = TaskSet_clear_task(@, key),
            !.cleared = IF KeyOf(key) \in DOMAIN s.set_items
                        THEN @ \cup {<<KeyOf(key), s.set_items[KeyOf(key)].id>>}
                        ELSE @,
            !.latest = [k \in DOMAIN @ \ {KeyOf(key)} |-> @[k]]]

\* Window.clear_task (history: cleared, latest)
clear_task(s, key) ==
    IF s.periodic_set = None THEN Raise(s)
    ELSE [s EXCEPT
            !.set_items = TaskSet_clear_task(@, KeyOf(key)),
            !.cleared = IF KeyOf(key) \in DOMAIN s.set_items
                        THEN @ \cup {<<KeyOf(key), s.set_items[KeyOf(key)].id>>}
                        ELSE @,
            !.latest = [k \in DOMAIN @ \ {KeyOf(key)} |-> @[k]]]

\* Window.close
close(s) ==
    IF s.event_loop = None THEN Raise(s)
    ELSE [s EXCEPT
            !.loop_tasks = run_until_complete(run_once(@)),
            !.loop_closed = TRUE,
            !.event_loop = None,
            !.destroyed = @ + 1,
            !.document_window = None,
            !.periodic_queue = None,
            !.periodic_set = None]

\* (mutant) about_to_close returns without closing.
about_to_close_pass(s, override) == s

\* Window.about_to_close; a subclass may override it and not close.
about_to_close(s, override) == IF override THEN s ELSE close(s)

\* A task is executed: it is logged and makes its call, if any, to the window.
\* A task that queues or adds creates a new task that does nothing.
NewTask(s) == Task(s.next_id, [op |-> "none", key |-> "a"])
TakeId(s) == [s EXCEPT !.next_id = @ + 1]
RunTask(s, t) ==
    LET s1 == [s EXCEPT !.executed = Append(@, t.id)] IN
    CASE t.op = "queue_task" /\ s1.next_id <= MaxTasks ->
            queue_task(TakeId(s1), NewTask(s1))
      [] t.op = "add_task" /\ s1.next_id <= MaxTasks ->
            add_task(TakeId(s1), t.key, NewTask(s1))
      [] t.op = "clear_task" -> clear_task(s1, t.key)
      [] t.op = "close" -> close(s1)
      [] OTHER -> s1

\* ------------------------------------------------------------------ tick
NoTick == [queue0 |-> <<>>, set0 |-> {}, dict0 |-> {}, log |-> <<>>,
           loops |-> 0, outcome |-> "none"]
Pairs(d) == {<<k, d[k].id>> : k \in DOMAIN d}
Entry(phase, key, t) == [phase |-> phase, key |-> key, id |-> t.id]

\* Window.periodic, entry: line 119 reads the queue and
\* TaskQueue.perform_tasks takes the size of the queue.
PeriodicBegin ==
    /\ pc = "idle"
    /\ LET s == Enter(Cur) IN
        IF periodic_queue = None
        THEN /\ Apply(Raise(s))
             /\ tick' = [NoTick EXCEPT !.outcome = "raised"]
             /\ UNCHANGED <<pc, qsize>>
        ELSE /\ Apply(s)
             /\ pc' = "queue"
             /\ qsize' = Len(queue_items)
             /\ tick' = [NoTick EXCEPT !.queue0 = Ids(queue_items),
                                       !.set0 = Pairs(set_items),
                                       !.outcome = "running"]
    /\ UNCHANGED <<task_dict, overridden, atc_calls, persistvars, menuvars>>

\* TaskQueue.perform_tasks, one turn of its loop: the head task is taken and run.
PerformQueueTask ==
    /\ pc = "queue" /\ qsize > 0 /\ queue_items # <<>>
    /\ LET t == Head(queue_items)
           s == RunTask([Cur EXCEPT !.queue_items = Tail(@)], t) IN
        /\ Apply(s)
        /\ IF s.error # NoError
           THEN /\ pc' = "idle" /\ qsize' = 0
                /\ tick' = [tick EXCEPT !.log = Append(@, Entry("queue", "", t)),
                                        !.outcome = "raised"]
           ELSE /\ pc' = pc /\ qsize' = qsize - 1
                /\ tick' = [tick EXCEPT !.log = Append(@, Entry("queue", "", t))]
    /\ UNCHANGED <<task_dict, overridden, atc_calls, persistvars, menuvars>>

\* Window.periodic line 120 and the start of TaskSet.perform_tasks: the dict is
\* taken and replaced by an empty one.
PeriodicSetBegin ==
    /\ pc = "queue" /\ (qsize = 0 \/ queue_items = <<>>)
    /\ IF periodic_set = None
       THEN /\ Apply(Raise(Cur))
            /\ pc' = "idle"
            /\ tick' = [tick EXCEPT !.outcome = "raised"]
            /\ UNCHANGED task_dict
       ELSE /\ Apply([Cur EXCEPT !.set_items = EmptyDict, !.latest = EmptyDict])
            /\ task_dict' = set_items
            /\ pc' = "set"
            /\ tick' = [tick EXCEPT !.dict0 = Pairs(set_items)]
    /\ qsize' = 0
    /\ UNCHANGED <<overridden, atc_calls, persistvars, menuvars>>

\* TaskSet.perform_tasks, one turn of its loop over the values of the dict.
PerformSetTask ==
    /\ pc = "set"
    /\ \E k \in DOMAIN task_dict :
        LET t == task_dict[k]
            s == RunTask(Cur, t) IN
        /\ Apply(s)
        /\ IF s.error # NoError
           THEN /\ pc' = "idle" /\ task_dict' = EmptyDict
                /\ tick' = [tick EXCEPT !.log = Append(@, Entry("set", k, t)),
                                        !.outcome = "raised"]
           ELSE /\ pc' = pc /\ task_dict' = [j \in DOMAIN task_dict \ {k} |-> task_dict[j]]
                /\ tick' = [tick EXCEPT !.log = Append(@, Entry("set", k, t))]
    /\ UNCHANGED <<qsize, overridden, atc_calls, persistvars, menuvars>>

\* (mutant) periodic returns without running the event loop.
PeriodicLoop_skipped ==
    /\ pc = "set" /\ DOMAIN task_dict = {}
    /\ Apply(Cur)
    /\ tick' = [tick EXCEPT !.outcome = "returned"]
    /\ pc' = "idle"
    /\ UNCHANGED <<qsize, task_dict, overridden, atc_calls, persistvars, menuvars>>

\* Window.periodic lines 121-122: the event loop is stopped and run once.
PeriodicLoop ==
    /\ pc = "set" /\ DOMAIN task_dict = {}
    /\ IF event_loop = None
       THEN /\ Apply(Raise(Cur))
            /\ tick' = [tick EXCEPT !.outcome = "raised"]
       ELSE /\ Apply([Cur EXCEPT !.loop_tasks = run_once(@)])
            /\ tick' = [tick EXCEPT !.loops = @ + 1, !.outcome = "returned"]
    /\ pc' = "idle"
    /\ UNCHANGED <<qsize, task_dict, overridden, atc_calls, persistvars, menuvars>>

\* ------------------------------------------- callbacks between the ticks
\* The document window's callbacks (on_queue_task, on_add_task, on_clear_task,
\* on_about_to_close) and the application's calls, each with a new task.
QueueTask ==
    /\ pc = "idle" /\ next_id <= MaxTasks
    /\ \E kind \in TaskKinds :
        Apply(queue_task(TakeId(Enter(Cur)), Task(next_id, kind)))
    /\ UNCHANGED <<pc, qsize, task_dict, overridden, tick, atc_calls, persistvars,
                   menuvars>>

AddTask ==
    /\ pc = "idle" /\ next_id <= MaxTasks
    /\ \E key \in Keys, kind \in TaskKinds :
        Apply(add_task(TakeId(Enter(Cur)), key, Task(next_id, kind)))
    /\ UNCHANGED <<pc, qsize, task_dict, overridden, tick, atc_calls, persistvars,
                   menuvars>>

ClearTask ==
    /\ pc = "idle"
    /\ \E key \in Keys : Apply(clear_task(Enter(Cur), key))
    /\ UNCHANGED <<pc, qsize, task_dict, overridden, tick, atc_calls, persistvars,
                   menuvars>>

AboutToClose ==
    /\ pc = "idle" /\ atc_calls < MaxCloses
    /\ Apply(about_to_close(Enter(Cur), overridden))
    /\ atc_calls' = atc_calls + 1
    /\ UNCHANGED <<pc, qsize, task_dict, overridden, tick, persistvars, menuvars>>

Close ==
    /\ pc = "idle"
    /\ Apply(close(Enter(Cur)))
    /\ UNCHANGED <<pc, qsize, task_dict, overridden, tick, atc_calls, persistvars,
                   menuvars>>

\* The application's use of Window.event_loop: a task is created on the loop,
\* cancelled, or forgotten once finished (all_tasks holds the tasks weakly).
CreateLoopTask ==
    /\ pc = "idle" /\ event_loop # None
    /\ \E i \in LoopIds, n \in {1, MaxSteps} :
        /\ loop_tasks[i].status = "none"
        /\ loop_tasks' = [loop_tasks EXCEPT ![i] = [status |-> "pending", remaining |-> n]]
    /\ UNCHANGED <<document_window, destroyed, periodic_queue, queue_items,
                   periodic_set, set_items, event_loop, loop_closed, error, pc,
                   qsize, task_dict, overridden, next_id, executed, queued_log,
                   replaced, cleared, latest, tick, atc_calls, persistvars, menuvars>>

CancelLoopTask ==
    /\ pc = "idle" /\ event_loop # None
    /\ \E i \in LoopIds :
        /\ loop_tasks[i].status = "pending"
        /\ loop_tasks' = [loop_tasks EXCEPT ![i].status = "cancelling"]
    /\ UNCHANGED <<document_window, destroyed, periodic_queue, queue_items,
                   periodic_set, set_items, event_loop, loop_closed, error, pc,
                   qsize, task_dict, overridden, next_id, executed, queued_log,
                   replaced, cleared, latest, tick, atc_calls, persistvars, menuvars>>

ForgetLoopTask ==
    /\ pc = "idle" /\ event_loop # None
    /\ \E i \in LoopIds :
        /\ loop_tasks[i].status \in {"done", "cancelled"}
        /\ loop_tasks' = [loop_tasks EXCEPT ![i] = NoLoopTask]
    /\ UNCHANGED <<document_window, destroyed, periodic_queue, queue_items,
                   periodic_set, set_items, event_loop, loop_closed, error, pc,
                   qsize, task_dict, overridden, next_id, executed, queued_log,
                   replaced, cleared, latest, tick, atc_calls, persistvars, menuvars>>

\* ------------------------------------------------------------------ init
\* Window.__init__
InitTasks ==
    /\ document_window = "DocumentWindow" /\ destroyed = 0
    /\ periodic_queue = "TaskQueue" /\ queue_items = <<>>
    /\ periodic_set = "TaskSet" /\ set_items = EmptyDict
    /\ event_loop = "EventLoop" /\ loop_closed = FALSE
    /\ loop_tasks = [i \in LoopIds |-> NoLoopTask]
    /\ error = NoError /\ pc = "idle" /\ qsize = 0 /\ task_dict = EmptyDict
    /\ next_id = 1 /\ executed = <<>> /\ queued_log = <<>>
    /\ replaced = {} /\ cleared = {} /\ latest = EmptyDict
    /\ tick = NoTick /\ atc_calls = 0

PersistIdle ==
    /\ persistent_id = None /\ shown = FALSE /\ store = EmptyDict
    /\ geometry = [size |-> 0, pos |-> 0] /\ layout = 0 /\ show_pc = "idle"
    /\ store_reads = {} /\ store_writes = {} /\ show_completed = FALSE

MenuIdle ==
    /\ focus = None /\ docks = <<>> /\ handlers = EmptyDict
    /\ window_methods = {} /\ enabled = EmptyDict /\ fresh = {}
    /\ last_dispatch = [action |-> None, method |-> None, fw |-> None,
                        calls |-> <<>>, result |-> FALSE]

\* The task runner: ticks, the tasks' calls back into the window, and the
\* callbacks between the ticks, on the base class.
Init == InitTasks /\ overridden = FALSE /\ PersistIdle /\ MenuIdle

Next ==
    \/ PeriodicBegin \/ PerformQueueTask \/ PeriodicSetBegin \/ PerformSetTask
    \/ PeriodicLoop
    \/ QueueTask \/ AddTask \/ ClearTask \/ Close

Spec == Init /\ [][Next]_vars

\* The close sequence: the tasks of the event loop, ticks, about_to_close and
\* close, on the base class and on a subclass that cancels closing.
CloseInit == InitTasks /\ overridden \in BOOLEAN /\ PersistIdle /\ MenuIdle

CloseNext ==
    \/ PeriodicBegin \/ PeriodicSetBegin \/ PeriodicLoop
    \/ AboutToClose \/ Close
    \/ CreateLoopTask \/ CancelLoopTask \/ ForgetLoopTask

CloseSpec == CloseInit /\ [][CloseNext]_vars


\* =========================================================== persistence
MaxGeometry == 2

PersistentIds == {None, "", "main"}
\* The truth value Python gives a persistent_id: None and "" are false.
Truthy(x) == x # None /\ x # ""

\* "{}/Geometry".format(persistent_id), "{}/State".format(persistent_id)
GeometryKey(pid) == pid \o "/Geometry"
StateKey(pid) == pid \o "/State"

Geometries == [size : 0..MaxGeometry, pos : 0..MaxGeometry]
DefaultGeometry == [size |-> 0, pos |-> 0]

\* ui.get_persistent_string(key) handed to document_window.restore: the
\* stored string replaces the current value; None (no string stored) does not.
restored(st, key, current) == IF key \in DOMAIN st THEN st[key] ELSE current
\* ui.set_persistent_string(key, value)
set_persistent_string(st, key, value) ==
    [k \in DOMAIN st \cup {key} |-> IF k = key THEN value ELSE st[k]]

\* (mutant) __save_bounds does not test the shown flag.
save_bounds_unshown(st, is_shown, pid, g, l) ==
    IF Truthy(pid)
    THEN [store |-> set_persistent_string(
                        set_persistent_string(st, GeometryKey(pid), g),
                        StateKey(pid), l),
          written |-> {GeometryKey(pid), StateKey(pid)}]
    ELSE [store |-> st, written |-> {}]

\* Window.__save_bounds, given what save() returns: the store after it and the
\* keys it wrote.
save_bounds(st, is_shown, pid, g, l) ==
    IF is_shown /\ Truthy(pid)
    THEN [store |-> set_persistent_string(
                        set_persistent_string(st, GeometryKey(pid), g),
                        StateKey(pid), l),
          written |-> {GeometryKey(pid), StateKey(pid)}]
    ELSE [store |-> st, written |-> {}]

\* Window.about_to_show up to the call of restore(): the two strings are read
\* and the document window starts to restore them; the window's size and
\* position events arrive while it does.
AboutToShowBegin ==
    /\ show_pc = "idle"
    /\ IF Truthy(persistent_id)
       THEN /\ store_reads' = store_reads
                    \cup {GeometryKey(persistent_id), StateKey(persistent_id)}
            /\ geometry' = restored(store, GeometryKey(persistent_id), geometry)
            /\ layout' = restored(store, StateKey(persistent_id), layout)
            /\ show_pc' = "restore"
            /\ UNCHANGED <<shown, show_completed>>
       ELSE /\ shown' = TRUE /\ show_completed' = TRUE
            /\ UNCHANGED <<store_reads, geometry, layout, show_pc>>
    /\ UNCHANGED <<persistent_id, store, store_writes, taskvars, menuvars>>

\* Window.about_to_show after restore() has returned.
AboutToShowEnd ==
    /\ show_pc = "restore"
    /\ shown' = TRUE /\ show_completed' = TRUE /\ show_pc' = "idle"
    /\ UNCHANGED <<persistent_id, store, geometry, layout, store_reads,
                   store_writes, taskvars, menuvars>>

\* Window.size_changed
SizeChanged ==
    /\ \E w \in 0..MaxGeometry :
        LET g == [geometry EXCEPT !.size = w]
            r == save_bounds(store, shown, persistent_id, g, layout) IN
        /\ geometry' = g
        /\ store' = r.store
        /\ store_writes' = store_writes \cup r.written
    /\ UNCHANGED <<persistent_id, shown, layout, show_pc, store_reads,
                   show_completed, taskvars, menuvars>>

\* Window.position_changed
PositionChanged ==
    /\ \E x \in 0..MaxGeometry :
        LET g == [geometry EXCEPT !.pos = x]
            r == save_bounds(store, shown, persistent_id, g, layout) IN
        /\ geometry' = g
        /\ store' = r.store
        /\ store_writes' = store_writes \cup r.written
    /\ UNCHANGED <<persistent_id, shown, layout, show_pc, store_reads,
                   show_completed, taskvars, menuvars>>

\* The strings a previous session of the window "main" left in the store.
PreviousSession ==
    set_persistent_string(
        set_persistent_string(EmptyDict, GeometryKey("main"),
                              [size |-> MaxGeometry, pos |-> MaxGeometry]),
        StateKey("main"), 1)

PersistInit ==
    /\ InitTasks /\ overridden = FALSE /\ MenuIdle
    /\ persistent_id \in PersistentIds
    /\ store \in {EmptyDict, PreviousSession}
    /\ shown = FALSE /\ geometry = DefaultGeometry /\ layout = 0
    /\ show_pc = "idle" /\ store_reads = {} /\ store_writes = {}
    /\ show_completed = FALSE

PersistNext ==
    \/ AboutToShowBegin \/ AboutToShowEnd \/ SizeChanged \/ PositionChanged

PersistSpec == PersistInit /\ [][PersistNext]_vars

\* ================================================================= menus
NumDocks == 2

Widgets == {"w1", "w2"}
TheWindow == "window"

\* The standard menu actions of _create_menus that dispatch to the focus widget.
MenuActions ==
    {"page_setup", "print", "undo", "redo", "cut", "copy", "paste", "delete",
     "select_all", "minimize", "zoom", "bring_to_front"}
AlwaysEnabled == {"close", "quit"}

\* The menu each action is added to in _create_menus.
MenuOf(a) ==
    CASE a \in {"close", "page_setup", "print", "quit"} -> "file"
      [] a \in {"undo", "redo", "cut", "copy", "paste", "delete", "select_all"} -> "edit"
      [] OTHER -> "window"

\* The method name each menu's about-to-show callback tests for the action.
TestedMethod(a) ==
    CASE a = "page_setup" -> "handle_page_setup"
      [] a = "print" -> "handle_print"
      [] a = "undo" -> "handle_undo"
      [] a = "redo" -> "handle_redo"
      [] a = "cut" -> "handle_cut"
      [] a = "copy" -> "handle_copy"
      [] a = "paste" -> "handle_paste"
      [] a = "delete" -> "handle_delete"
      [] a = "select_all" -> "handle_select_all"
      [] a = "minimize" -> "handle_minimize"
      [] a = "zoom" -> "handle_zoom"
      [] a = "bring_to_front" -> "handle_bring_to_front"

\* The method name the action's callback (_page_setup .. _bring_to_front)
\* dispatches when the action is triggered.
DispatchedMethod(a) ==
    CASE a = "page_setup" -> "handle_page_setup"
      [] a = "print" -> "handle_print"
      [] a = "cut" -> "handle_cut"
      [] a = "copy" -> "handle_copy"
      [] a = "paste" -> "handle_paste"
      [] a = "delete" -> "handle_delete"
      [] a = "select_all" -> "handle_select_all"
      [] a = "undo" -> "handle_undo"
      [] a = "redo" -> "handle_redo"
      [] a = "minimize" -> "handle_minimize"
      [] a = "zoom" -> "handle_zoom"
      [] a = "bring_to_front" -> "bring_to_front"

\* Window.focus_widget: the focus widget of the document window, else that of
\* the first dock widget that has one, else None.
RECURSIVE first_dock_focus(_)
first_dock_focus(d) ==
    IF d = <<>> THEN None
    ELSE IF Head(d) # None THEN Head(d) ELSE first_dock_focus(Tail(d))
focus_widget == IF focus # None THEN focus ELSE first_dock_focus(docks)

\* Widget._dispatch_any(method): the widget's method of that name is called,
\* if it has one, and its result (ret) returned; False otherwise.
Widget_dispatch_any(w, method, ret) ==
    IF method \in handlers[w]
    THEN [calls |-> <<[target |-> w, ret |-> ret]>>, result |-> ret]
    ELSE [calls |-> <<>>, result |-> FALSE]

\* Widget._will_dispatch(method): the widget has a method of that name.
Widget_will_dispatch(w, method) == method \in handlers[w]

\* (mutant) the window's own method is called whether or not the focus widget
\* handled the action.
dispatch_any_to_focus_widget_both(method, wret, sret) ==
    LET fw == focus_widget
        wd == IF fw # None THEN Widget_dispatch_any(fw, method, wret)
              ELSE [calls |-> <<>>, result |-> FALSE]
        own == IF method \in window_methods
               THEN <<[target |-> TheWindow, ret |-> sret]>> ELSE <<>>
    IN [fw |-> fw, calls |-> wd.calls \o own,
        result |-> wd.result \/ (method \in window_methods /\ sret)]

\* Window._dispatch_any_to_focus_widget(method): the calls made, in order, and
\* the value returned.  wret and sret are what the widget's and the window's
\* methods return (as truth values) if they are called.
dispatch_any_to_focus_widget(method, wret, sret) ==
    LET fw == focus_widget
        wd == IF fw # None THEN Widget_dispatch_any(fw, method, wret)
              ELSE [calls |-> <<>>, result |-> FALSE]
    IN IF fw # None /\ wd.result
       THEN [fw |-> fw, calls |-> wd.calls, result |-> TRUE]
       ELSE IF method \in window_methods
            THEN [fw |-> fw,
                  calls |-> wd.calls \o <<[target |-> TheWindow, ret |-> sret]>>,
                  result |-> sret]
            ELSE [fw |-> fw, calls |-> wd.calls, result |-> FALSE]

\* Window._will_focus_widget_dispatch(method)
will_focus_widget_dispatch(method) ==
    \/ focus_widget # None /\ Widget_will_dispatch(focus_widget, method)
    \/ method \in window_methods

NoDispatch == [action |-> None, method |-> None, fw |-> None, calls |-> <<>>,
               result |-> FALSE]

\* A menu action is triggered: _page_setup .. _bring_to_front.
Trigger ==
    /\ \E a \in MenuActions, wret \in BOOLEAN, sret \in BOOLEAN :
        LET d == dispatch_any_to_focus_widget(DispatchedMethod(a), wret, sret) IN
        last_dispatch' = [action |-> a, method |-> DispatchedMethod(a),
                          fw |-> d.fw, calls |-> d.calls, result |-> d.result]
    /\ UNCHANGED <<focus, docks, handlers, window_methods, enabled, fresh,
                   taskvars, persistvars>>

\* The enabled flags a menu's about-to-show callback sets.
Refreshed(menu) ==
    [a \in DOMAIN enabled |->
        IF MenuOf(a) # menu THEN enabled[a]
        ELSE IF a \in AlwaysEnabled THEN TRUE
        ELSE will_focus_widget_dispatch(TestedMethod(a))]

\* Window._file_menu_about_to_show
FileMenuAboutToShow ==
    /\ enabled' = Refreshed("file")
    /\ fresh' = fresh \cup {"file"}
    /\ UNCHANGED <<focus, docks, handlers, window_methods, last_dispatch,
                   taskvars, persistvars>>

\* Window._edit_menu_about_to_show
EditMenuAboutToShow ==
    /\ enabled' = Refreshed("edit")
    /\ fresh' = fresh \cup {"edit"}
    /\ UNCHANGED <<focus, docks, handlers, window_methods, last_dispatch,
                   taskvars, persistvars>>

\* Window._window_menu_about_to_show
WindowMenuAboutToShow ==
    /\ enabled' = Refreshed("window")
    /\ fresh' = fresh \cup {"window"}
    /\ UNCHANGED <<focus, docks, handlers, window_methods, last_dispatch,
                   taskvars, persistvars>>

\* The focus moves: to a widget of the document window, to one of a dock
\* widget, or away.
FocusChanged ==
    /\ \E f \in Widgets \cup {None}, d \in [1..NumDocks -> Widgets \cup {None}] :
        /\ <<f, d>> # <<focus, docks>>
        /\ focus' = f /\ docks' = d
    /\ fresh' = {} /\ last_dispatch' = NoDispatch
    /\ UNCHANGED <<handlers, window_methods, enabled, taskvars, persistvars>>

\* The methods a widget may have, and those of the window: handle_quit on the
\* base class, more on a subclass.
HandlerSets ==
    {{}, {"handle_copy", "handle_zoom"}, {"handle_bring_to_front"},
     {"bring_to_front", "handle_print"}}
WindowMethodSets ==
    {{"handle_quit"}, {"handle_quit", "handle_copy"},
     {"handle_quit", "bring_to_front"}}

MenuInit ==
    /\ InitTasks /\ overridden = FALSE /\ PersistIdle
    /\ focus = None /\ docks = [i \in 1..NumDocks |-> None]
    /\ handlers \in [Widgets -> HandlerSets]
    /\ window_methods \in WindowMethodSets
    /\ enabled = [a \in MenuActions \cup AlwaysEnabled |-> TRUE]
    /\ fresh = {} /\ last_dispatch = NoDispatch

\* Dispatch: the actions are triggered under every focus, for every choice of
\* the widgets' and the window's methods.
MenuNext == Trigger \/ FocusChanged

MenuSpec == MenuInit /\ [][MenuNext]_vars

\* Enablement: the menus are shown and the actions triggered under every
\* focus, for two widgets that have some of the methods.
EnableInit ==
    /\ InitTasks /\ overridden = FALSE /\ PersistIdle
    /\ focus = None /\ docks = [i \in 1..NumDocks |-> None]
    /\ handlers = [w \in Widgets |->
                      IF w = "w1" THEN {"handle_copy", "handle_bring_to_front"}
                      ELSE {"handle_zoom", "bring_to_front"}]
    /\ window_methods \in WindowMethodSets
    /\ enabled = [a \in MenuActions \cup AlwaysEnabled |-> TRUE]
    /\ fresh = {} /\ last_dispatch = NoDispatch

EnableNext ==
    \/ Trigger \/ FileMenuAboutToShow \/ EditMenuAboutToShow
    \/ WindowMenuAboutToShow \/ FocusChanged

EnableSpec == EnableInit /\ [][EnableNext]_vars

\* ================================================================ claims
IsPrefix(a, b) == Len(a) <= Len(b) /\ \A i \in DOMAIN a : a[i] = b[i]
InQueueLog(i) == i \in Range(queued_log)
QueueExecuted == SelectSeq(executed, InQueueLog)
LogIds(phase) == {tick.log[i].id : i \in {j \in DOMAIN tick.log : tick.log[j].phase = phase}}
PendingIds == Range(Ids(queue_items)) \cup {set_items[k].id : k \in DOMAIN set_items}

\* C1: queued tasks are executed in the order in which they were queued: the
\* queued tasks executed so far are, in execution order, the first ones passed
\* to queue_task, so a task never starts before one queued earlier.
C1_QueuedTasksRunInOrder == IsPrefix(QueueExecuted, queued_log)

C1_Witness ==
    /\ Len(QueueExecuted) >= 2
    /\ Len(queued_log) > Len(QueueExecuted)
    /\ tick.outcome = "returned"

C3_ClearedInv == \A c \in cleared : c[2] \notin Range(executed)
C3_ClearStep ==
    ClearTask =>
        /\ queue_items' = queue_items
        /\ DOMAIN set_items' \subseteq DOMAIN set_items
        /\ \E key \in Keys :
            \A k \in DOMAIN set_items \ {KeyOf(key)} :
                k \in DOMAIN set_items' /\ set_items'[k] = set_items[k]
\* C3: a task added under a key and cleared with clear_task before a tick is
\* never executed, and clear_task(key) leaves the tasks under the other keys
\* and the queued tasks as they are.
C3_ClearedTaskNeverRuns == [](C3_ClearedInv) /\ [][C3_ClearStep]_vars

\* A task was added and cleared, then a tick ran a queued task and a task added
\* later under another key.
C3_Witness ==
    /\ tick.outcome = "returned"
    /\ LogIds("queue") # {}
    /\ \E c \in cleared : \E e \in tick.dict0 :
            c[1] # e[1] /\ c[2] < e[2] /\ e[2] \in LogIds("set")

\* C4 (as claimed): every task pending in the queue or in the set when
\* periodic() starts has been executed in that tick when periodic() returns.
C4_AllPendingAtStartRun ==
    tick.outcome = "returned" =>
        (Range(tick.queue0) \cup {e[2] : e \in tick.set0})
            \subseteq (LogIds("queue") \cup LogIds("set"))

\* C4 (amended): when periodic() returns, the tasks that were in the queue
\* when it started have been executed first, in queue order, then the tasks
\* the set held when it was drained (those pending at the start that no queue
\* task of the tick replaced or cleared, and those the queue tasks added),
\* then the event loop has run once; none of the executed tasks is pending,
\* and no task is ever executed twice.
C4_DrainedOncePerTick ==
    /\ \A i, j \in DOMAIN executed : executed[i] = executed[j] => i = j
    /\ tick.outcome = "returned" =>
        /\ Len(tick.queue0) <= Len(tick.log)
        /\ \A i \in DOMAIN tick.queue0 :
                tick.log[i].phase = "queue" /\ tick.log[i].id = tick.queue0[i]
        /\ \A i, j \in DOMAIN tick.log :
                (tick.log[i].phase = "queue" /\ tick.log[j].phase = "set") => i < j
        /\ LogIds("set") = {e[2] : e \in tick.dict0}
        /\ \A e \in tick.set0 :
                \/ e \in tick.dict0
                \/ e \in cleared
                \/ \E r \in replaced : r[1] = e[1] /\ r[2] = e[2]
        /\ tick.loops = 1
        /\ (LogIds("queue") \cup LogIds("set")) \cap PendingIds = {}

C4_Witness ==
    /\ tick.outcome = "returned"
    /\ Len(tick.queue0) >= 1
    /\ tick.dict0 # {}
    /\ tick.set0 \ tick.dict0 # {}

\* C10: no operation uses a field that close() has released: no operation
\* ends with an AttributeError.
C10_NoUseAfterRelease == error = NoError


\* C5: when close() returns, every task that was outstanding on the event
\* loop is finished or cancelled (and the loop is closed and the document
\* window destroyed).
C5_CloseFinishesAllTasks ==
    loop_closed =>
        /\ \A i \in LoopIds : loop_tasks[i].status \in {"none", "done", "cancelled"}
        /\ event_loop = None /\ document_window = None /\ destroyed = 1

C8_WriteInv ==
    /\ store_writes # {} =>
            /\ shown /\ show_completed /\ Truthy(persistent_id)
            /\ store_writes \subseteq {GeometryKey(persistent_id), StateKey(persistent_id)}
    /\ shown => show_completed
    /\ ~Truthy(persistent_id) => store_reads = {} /\ store_writes = {}
C8_NoWriteStep ==
    (~shown \/ ~Truthy(persistent_id)) =>
        store' = store /\ store_writes' = store_writes
\* C8: geometry and state are written to the persistent store only after
\* about_to_show has completed (restore done, shown flag set) and only with a
\* persistent_id; size and position events before that, those raised while
\* restore() runs included, leave the store as it is; a window without a
\* persistent_id neither reads nor writes the store.
C8_NoWriteBeforeShown == [](C8_WriteInv) /\ [][C8_NoWriteStep]_vars

\* restore() is running, a size or position event has moved the window away
\* from the stored geometry, and the store still holds what it held.
C8_Witness ==
    /\ show_pc = "restore" /\ ~shown /\ Truthy(persistent_id)
    /\ store = PreviousSession
    /\ geometry # store[GeometryKey(persistent_id)]


\* The targets whose method a dispatch called, and those whose method
\* returned a true value (handled the action).
Handled(d) == {d.calls[i].target : i \in {j \in DOMAIN d.calls : d.calls[j].ret}}
Called(d) == {d.calls[i].target : i \in DOMAIN d.calls}

\* C6: a standard menu action goes to the focus widget first; the window's own
\* method is called only if there is no focus widget or the focus widget did
\* not handle the action; when the focus widget handles it nothing else is
\* called; and the dispatch returns True iff one of them handled it.
C6_DispatchToFocusWidgetFirst ==
    last_dispatch.action # None =>
        LET d == last_dispatch
            expected == IF focus # None THEN focus
                        ELSE IF \E i \in DOMAIN docks : docks[i] # None
                        THEN docks[CHOOSE i \in DOMAIN docks :
                                    /\ docks[i] # None
                                    /\ \A j \in DOMAIN docks : j < i => docks[j] = None]
                        ELSE None
        IN /\ d.fw = expected
           /\ Called(d) \subseteq {d.fw, TheWindow} \ {None}
           /\ (d.fw # None /\ d.method \in handlers[d.fw]) =>
                    d.calls # <<>> /\ d.calls[1].target = d.fw
           /\ TheWindow \in Called(d) => (d.fw = None \/ d.fw \notin Handled(d))
           /\ (d.fw # None /\ d.fw \in Handled(d)) => Len(d.calls) = 1
           /\ (d.method \in window_methods /\ (d.fw = None \/ d.fw \notin Handled(d)))
                    => TheWindow \in Called(d)
           /\ d.result <=> Handled(d) # {}

\* The focus is in the second dock widget; its widget has the method but does
\* not handle the action, and the window's own method does.
C6_Witness ==
    /\ last_dispatch.action # None
    /\ focus = None /\ docks[1] = None /\ last_dispatch.fw # None
    /\ Len(last_dispatch.calls) = 2
    /\ last_dispatch.result

\* C9: the enabled flag a menu's about-to-show callback gives an action agrees
\* with what triggering the action reaches under the same focus: enabled iff
\* the trigger calls a method of the focus widget or of the window.
C9_EnabledIffDispatched ==
    (last_dispatch.action # None /\ MenuOf(last_dispatch.action) \in fresh) =>
        (enabled[last_dispatch.action] <=> last_dispatch.calls # <<>>)

====
